---------------------------- MODULE Spec2Model ----------------------------
(***************************************************************************)
(* A model of pledger: a transaction log held in one SQL table             *)
(* (transactions_store.rs), the ingestion of input events into it          *)
(* (Transactions::add_input) and the reconstruction of a client's account  *)
(* from the rows of the table (Transactions::get_account_for_client).      *)
(*                                                                         *)
(* Decimal amounts are integers counting units of 10^-AmountDigits; the    *)
(* TEXT column `amount` is a sign and a magnitude, written by to_string    *)
(* and read back by from_str.                                              *)
(***************************************************************************)
EXTENDS Integers, Sequences, FiniteSets

VARIABLES
    transactions,   \* the rows of table `transactions`
    last,           \* the last add_input call: the event and its result
    prev,           \* the rows of the table before that call
    replay,         \* a sequence of events ingested twice into one store
    run             \* one run of process_transactions

vars == <<transactions, last, prev, replay, run>>

----------------------------------------------------------------------------
(* Bounds of the model *)

MaxClient == 2
MaxTx == 2
MaxLog == 4         \* events in a replayed sequence
MaxInput == 2       \* rows of the input of one run
AmountDigits == 5

Clients == 1..MaxClient
Txs == 1..MaxTx

\* Event amounts, in units of 10^-AmountDigits; all positive.
Amounts == {10, 15}

\* Option<BigDecimal>: None is the empty sequence, Some(a) is <<a>>.
NoAmount == <<>>
Some(a) == <<a>>
OptionalAmounts == {NoAmount} \cup {Some(a) : a \in Amounts}

TransactionType == {"deposit", "withdrawal", "dispute", "resolve", "chargeback"}

----------------------------------------------------------------------------
(* Decimal helpers (bigdecimal) *)

RoundDigits == 4

RECURSIVE Pow10(_)
Pow10(n) == IF n <= 0 THEN 1 ELSE 10 * Pow10(n - 1)

\* One unit of the last kept digit, in units of 10^-AmountDigits.
Ulp(round_digits) == Pow10(AmountDigits - round_digits)

Abs(x) == IF x < 0 THEN -x ELSE x

\* BigDecimal::to_string: the decimal as text, a sign and the digits.
to_string(d) == [neg |-> d < 0, digits |-> Abs(d)]

\* BigDecimal::from_str on a text written by to_string.
from_str(s) == IF s.neg THEN -(s.digits) ELSE s.digits

\* BigDecimal::round(round_digits): to the nearest multiple of the ulp,
\* a tie going to the even neighbour.
round(x, round_digits) ==
    LET u == Ulp(round_digits)
        q == x \div u          \* floor
        r == x % u             \* 0 <= r < u
    IN  IF r = 0 THEN x
        ELSE IF 2 * r < u THEN q * u
        ELSE IF 2 * r > u THEN (q + 1) * u
        ELSE IF q % 2 = 0 THEN q * u
        ELSE (q + 1) * u

----------------------------------------------------------------------------
(* transactions_store.rs *)

\* ordinal INTEGER PRIMARY KEY: the rowid SQLite gives a new row.
next_ordinal(T) ==
    IF T = {} THEN 1
    ELSE (CHOOSE m \in {r.ordinal : r \in T} :
              \A r \in T : r.ordinal <= m) + 1

\* Mutant: a plain INSERT into a table without the UNIQUE constraint.
insert_transaction_always(T, client_id, transaction_id, amount) ==
    T \cup {[ordinal |-> next_ordinal(T),
             client_id |-> client_id,
             transaction_id |-> transaction_id,
             amount |-> amount,
             disputed |-> FALSE,
             charged_back |-> FALSE]}

\* Mutant: INSERT OR REPLACE, the colliding row gives way to the new one.
insert_transaction_or_replace(T, client_id, transaction_id, amount) ==
    LET kept == {r \in T : r.transaction_id # transaction_id}
    IN  kept \cup {[ordinal |-> next_ordinal(T),
                    client_id |-> client_id,
                    transaction_id |-> transaction_id,
                    amount |-> amount,
                    disputed |-> FALSE,
                    charged_back |-> FALSE]}

insert_transaction(T, client_id, transaction_id, amount) ==
    IF \E r \in T : r.transaction_id = transaction_id
    THEN T      \* ON CONFLICT (transaction_id) DO NOTHING
    ELSE T \cup {[ordinal |-> next_ordinal(T),
                  client_id |-> client_id,
                  transaction_id |-> transaction_id,
                  amount |-> amount,
                  disputed |-> FALSE,
                  charged_back |-> FALSE]}

\* Mutant: only the row inserted last can be flagged.
dispute_transaction_latest_row(T, client_id, transaction_id) ==
    {IF /\ r.client_id = client_id /\ r.transaction_id = transaction_id
        /\ \A q \in T : q.ordinal <= r.ordinal
     THEN [r EXCEPT !.disputed = TRUE]
     ELSE r : r \in T}

\* Mutant: the WHERE clause names the transaction id alone.
dispute_transaction_any_client(T, client_id, transaction_id) ==
    {IF r.transaction_id = transaction_id
     THEN [r EXCEPT !.disputed = TRUE]
     ELSE r : r \in T}

dispute_transaction(T, client_id, transaction_id) ==
    {IF r.client_id = client_id /\ r.transaction_id = transaction_id
     THEN [r EXCEPT !.disputed = TRUE]
     ELSE r : r \in T}

\* Mutant: the statement matches no row.
resolve_dispute_no_row(T, client_id, transaction_id) == T

\* Mutant: the WHERE clause names the transaction id alone.
resolve_dispute_any_client(T, client_id, transaction_id) ==
    {IF r.transaction_id = transaction_id
     THEN [r EXCEPT !.disputed = FALSE]
     ELSE r : r \in T}

\* Mutant: the statement of dispute_transaction, copied unchanged.
resolve_dispute_sets_true(T, client_id, transaction_id) ==
    {IF r.client_id = client_id /\ r.transaction_id = transaction_id
     THEN [r EXCEPT !.disputed = TRUE]
     ELSE r : r \in T}

\* Mutant: the resolve clears both flags.
resolve_dispute_clears_both(T, client_id, transaction_id) ==
    {IF r.client_id = client_id /\ r.transaction_id = transaction_id
     THEN [r EXCEPT !.disputed = FALSE, !.charged_back = FALSE]
     ELSE r : r \in T}

resolve_dispute(T, client_id, transaction_id) ==
    {IF r.client_id = client_id /\ r.transaction_id = transaction_id
     THEN [r EXCEPT !.disputed = FALSE]
     ELSE r : r \in T}

\* Mutant: the WHERE clause without `AND disputed = true`.
chargeback_transaction_unguarded(T, client_id, transaction_id) ==
    {IF r.client_id = client_id /\ r.transaction_id = transaction_id
     THEN [r EXCEPT !.disputed = FALSE, !.charged_back = TRUE]
     ELSE r : r \in T}

\* Mutant: the WHERE clause is `disputed = true` alone.
chargeback_transaction_every_disputed(T, client_id, transaction_id) ==
    IF \E r \in T : /\ r.client_id = client_id
                    /\ r.transaction_id = transaction_id
                    /\ r.disputed
    THEN {IF r.disputed
          THEN [r EXCEPT !.disputed = FALSE, !.charged_back = TRUE]
          ELSE r : r \in T}
    ELSE T

chargeback_transaction(T, client_id, transaction_id) ==
    {IF r.client_id = client_id /\ r.transaction_id = transaction_id
        /\ r.disputed
     THEN [r EXCEPT !.disputed = FALSE, !.charged_back = TRUE]
     ELSE r : r \in T}

\* Mutant: every client id up to the largest one in the table.
get_clients_up_to_largest(T) ==
    {c \in Clients : \E r \in T : c <= r.client_id}

\* SELECT DISTINCT client_id from transactions
get_clients(T) == {r.client_id : r \in T}

\* Mutant: ORDER BY transaction_id.
RECURSIVE order_by_transaction_id(_)
order_by_transaction_id(R) ==
    IF R = {} THEN <<>>
    ELSE LET first == CHOOSE r \in R :
                          \A q \in R : r.transaction_id <= q.transaction_id
         IN  <<first>> \o order_by_transaction_id(R \ {first})

\* ORDER BY ordinal: the rows of R as a sequence, smallest ordinal first.
RECURSIVE order_by_ordinal(_)
order_by_ordinal(R) ==
    IF R = {} THEN <<>>
    ELSE LET first == CHOOSE r \in R : \A q \in R : r.ordinal <= q.ordinal
         IN  <<first>> \o order_by_ordinal(R \ {first})

\* SELECT * from transactions WHERE client_id = $1 ORDER BY ordinal
get_transactions_for_client(T, client_id) ==
    order_by_ordinal({r \in T : r.client_id = client_id})

----------------------------------------------------------------------------
(* output.rs *)

round_amounts(account, round_digits) ==
    [account EXCEPT !.available = round(account.available, round_digits),
                    !.held = round(account.held, round_digits),
                    !.total = round(account.total, round_digits)]

----------------------------------------------------------------------------
(* transactions.rs *)

\* The account before the first row is read.
new_account(client_id) ==
    [client |-> client_id, available |-> 0, held |-> 0, total |-> 0,
     locked |-> FALSE]

\* Mutant: new_held += transaction_amount, without abs().
candidate_signed_held(account, transaction) ==
    LET transaction_amount == from_str(transaction.amount)
        new_held == IF transaction.disputed
                    THEN account.held + transaction_amount
                    ELSE account.held
        new_available ==
            IF transaction.disputed
            THEN IF transaction_amount < 0
                 THEN account.available + transaction_amount
                 ELSE account.available
            ELSE account.available + transaction_amount
    IN  [available |-> new_available, held |-> new_held,
         total |-> new_available + new_held]

\* The candidate balances of one iteration of the loop, from a row that is
\* not charged back.
candidate(account, transaction) ==
    LET transaction_amount == from_str(transaction.amount)
        new_held == IF transaction.disputed
                    THEN account.held + Abs(transaction_amount)
                    ELSE account.held
        new_available ==
            IF transaction.disputed
            THEN IF transaction_amount < 0
                 THEN account.available + transaction_amount
                 ELSE account.available
            ELSE account.available + transaction_amount
    IN  [available |-> new_available, held |-> new_held,
         total |-> new_available + new_held]

\* Mutant: no negative-funds guard.
fold_step_no_guard(account, transaction) ==
    LET new == candidate(account, transaction)
    IN  [account EXCEPT !.available = new.available,
                        !.held = new.held,
                        !.total = new.total]

\* Mutant: the guard discards the candidate available only.
fold_step_keeps_held(account, transaction) ==
    LET new == candidate(account, transaction)
    IN  IF new.available < 0
        THEN [account EXCEPT !.held = new.held,
                             !.total = account.available + new.held]
        ELSE [account EXCEPT !.available = new.available,
                             !.held = new.held,
                             !.total = new.total]

\* Mutant: the guard tests the candidate total.
fold_step_guard_on_total(account, transaction) ==
    LET new == candidate(account, transaction)
    IN  IF new.total < 0
        THEN account
        ELSE [account EXCEPT !.available = new.available,
                             !.held = new.held,
                             !.total = new.total]

\* One iteration of the loop on a row that is not charged back.
fold_step(account, transaction) ==
    LET new == candidate(account, transaction)
    IN  IF new.available < 0
        THEN account        \* continue
        ELSE [account EXCEPT !.available = new.available,
                             !.held = new.held,
                             !.total = new.total]

\* Mutant: a charged-back row locks the account and the loop goes on.
RECURSIVE while_loop_goes_on(_, _, _)
while_loop_goes_on(rows, i, account) ==
    IF i > Len(rows) THEN account
    ELSE IF rows[i].charged_back
         THEN while_loop_goes_on(rows, i + 1, [account EXCEPT !.locked = TRUE])
         ELSE while_loop_goes_on(rows, i + 1, fold_step(account, rows[i]))

\* Mutant: the negative-funds guard comes before the charged_back test.
RECURSIVE while_loop_guard_first(_, _, _)
while_loop_guard_first(rows, i, account) ==
    IF i > Len(rows) THEN account
    ELSE IF candidate(account, rows[i]).available < 0
         THEN while_loop_guard_first(rows, i + 1, account)
         ELSE IF rows[i].charged_back
              THEN [account EXCEPT !.locked = TRUE]
              ELSE while_loop_guard_first(rows, i + 1,
                                          fold_step(account, rows[i]))

\* Mutant: the charged_back test is the last statement of the loop body,
\* after the `continue` of the guard and after the commit.
RECURSIVE while_loop_return_last(_, _, _)
while_loop_return_last(rows, i, account) ==
    IF i > Len(rows) THEN account
    ELSE IF candidate(account, rows[i]).available < 0
         THEN while_loop_return_last(rows, i + 1, account)
         ELSE IF rows[i].charged_back
              THEN [fold_step(account, rows[i]) EXCEPT !.locked = TRUE]
              ELSE while_loop_return_last(rows, i + 1,
                                          fold_step(account, rows[i]))

\* The while loop from row i on: the account when the loop is left, either
\* by the return on a charged-back row (locked) or at the end of the rows.
RECURSIVE while_loop(_, _, _)
while_loop(rows, i, account) ==
    IF i > Len(rows) THEN account
    ELSE IF rows[i].charged_back
         THEN [account EXCEPT !.locked = TRUE]     \* return Ok(account)
         ELSE while_loop(rows, i + 1, fold_step(account, rows[i]))

\* The return inside the loop hands the account back as it is; the rounding
\* is reached only when the loop runs to the end of the rows.
get_account_for_client(T, client_id) ==
    LET account == while_loop(get_transactions_for_client(T, client_id), 1,
                              new_account(client_id))
    IN  IF account.locked THEN account
        ELSE round_amounts(account, RoundDigits)

\* Transactions::get_accounts: one account for each client id the store
\* lists; the order of the stream is the store's and is left open.
get_accounts(T) ==
    {get_account_for_client(T, client_id) : client_id \in get_clients(T)}

\* Mutant: a missing amount counts as zero.
add_input_default_amount(T, input_transaction) ==
    LET type == input_transaction.transaction_type
        client == input_transaction.client
        tx == input_transaction.tx
        amount == IF input_transaction.amount = NoAmount
                  THEN 0 ELSE input_transaction.amount[1]
    IN  CASE type = "deposit" ->
                [store |-> insert_transaction(T, client, tx, to_string(amount)),
                 result |-> "ok"]
          [] type = "withdrawal" ->
                [store |-> insert_transaction(T, client, tx, to_string(-amount)),
                 result |-> "ok"]
          [] type = "dispute" ->
                [store |-> dispute_transaction(T, client, tx),
                 result |-> "ok"]
          [] type = "resolve" ->
                [store |-> resolve_dispute(T, client, tx),
                 result |-> "ok"]
          [] type = "chargeback" ->
                [store |-> chargeback_transaction(T, client, tx),
                 result |-> "ok"]

\* Transactions::add_input: the table after the call and the call's result.
add_input(T, input_transaction) ==
    LET type == input_transaction.transaction_type
        client == input_transaction.client
        tx == input_transaction.tx
        amount == input_transaction.amount
    IN  CASE type = "deposit" ->
                IF amount = NoAmount
                THEN [store |-> T, result |-> "err"]
                ELSE [store |-> insert_transaction(T, client, tx,
                                                   to_string(amount[1])),
                      result |-> "ok"]
          [] type = "withdrawal" ->
                IF amount = NoAmount
                THEN [store |-> T, result |-> "err"]
                ELSE [store |-> insert_transaction(T, client, tx,
                                                   to_string(-(amount[1]))),
                      result |-> "ok"]
          [] type = "dispute" ->
                [store |-> dispute_transaction(T, client, tx),
                 result |-> "ok"]
          [] type = "resolve" ->
                [store |-> resolve_dispute(T, client, tx),
                 result |-> "ok"]
          [] type = "chargeback" ->
                [store |-> chargeback_transaction(T, client, tx),
                 result |-> "ok"]

----------------------------------------------------------------------------
(* The state machine: a fresh store, then one add_input call per step *)

InputTransaction(type, client, tx, amount) ==
    [transaction_type |-> type, client |-> client, tx |-> tx,
     amount |-> amount]

NoInput == InputTransaction("none", 0, 0, FALSE)

\* No sequence is being replayed.
NoReplay == [log |-> <<>>, pos |-> 0, first |-> {}]

\* process_transactions is not running: add_input is called directly.
NoRun == [pc |-> "off", log |-> <<>>, output |-> <<>>]

\* Transactions::new: clean_and_recreate leaves an empty table.
Init ==
    /\ transactions = {}
    /\ last = [input |-> NoInput, result |-> "ok"]
    /\ prev = {}
    /\ replay = NoReplay
    /\ run = NoRun

\* What `last` records of a call: the event, its amount reduced to whether
\* it is present, and the result.
Call(input_transaction, result) ==
    [input |-> [input_transaction EXCEPT !.amount = (@ # NoAmount)],
     result |-> result]

Deposit ==
    \E c \in Clients, t \in Txs, a \in OptionalAmounts :
        LET input == InputTransaction("deposit", c, t, a)
            out == add_input(transactions, input)
        IN  /\ transactions' = out.store
            /\ last' = Call(input, out.result)
            /\ prev' = transactions
            /\ UNCHANGED <<replay, run>>

Withdrawal ==
    \E c \in Clients, t \in Txs, a \in OptionalAmounts :
        LET input == InputTransaction("withdrawal", c, t, a)
            out == add_input(transactions, input)
        IN  /\ transactions' = out.store
            /\ last' = Call(input, out.result)
            /\ prev' = transactions
            /\ UNCHANGED <<replay, run>>

Dispute ==
    \E c \in Clients, t \in Txs, a \in OptionalAmounts :
        LET input == InputTransaction("dispute", c, t, a)
            out == add_input(transactions, input)
        IN  /\ transactions' = out.store
            /\ last' = Call(input, out.result)
            /\ prev' = transactions
            /\ UNCHANGED <<replay, run>>

Resolve ==
    \E c \in Clients, t \in Txs, a \in OptionalAmounts :
        LET input == InputTransaction("resolve", c, t, a)
            out == add_input(transactions, input)
        IN  /\ transactions' = out.store
            /\ last' = Call(input, out.result)
            /\ prev' = transactions
            /\ UNCHANGED <<replay, run>>

Chargeback ==
    \E c \in Clients, t \in Txs, a \in OptionalAmounts :
        LET input == InputTransaction("chargeback", c, t, a)
            out == add_input(transactions, input)
        IN  /\ transactions' = out.store
            /\ last' = Call(input, out.result)
            /\ prev' = transactions
            /\ UNCHANGED <<replay, run>>

Next == Deposit \/ Withdrawal \/ Dispute \/ Resolve \/ Chargeback

Spec == Init /\ [][Next]_vars

----------------------------------------------------------------------------
(* A sequence of events ingested into a fresh store, then ingested again   *)
(* into the same store: add_input called for each event of the sequence,   *)
(* twice over.                                                             *)

\* The events of a sequence: a Deposit or Withdrawal with its amount, a
\* Dispute, Resolve or Chargeback without one (add_input accepts each).
Events ==
    {InputTransaction(type, c, t, Some(a)) :
         type \in {"deposit", "withdrawal"}, c \in Clients, t \in Txs,
         a \in Amounts}
    \cup {InputTransaction(type, c, t, NoAmount) :
              type \in {"dispute", "resolve", "chargeback"}, c \in Clients,
              t \in Txs}

\* The first ingestion of the next event of the sequence.
FirstPass ==
    /\ replay.pos = 0
    /\ Len(replay.log) < MaxLog
    /\ \E e \in Events :
           /\ transactions' = add_input(transactions, e).store
           /\ replay' = [replay EXCEPT !.log = Append(@, e)]
    /\ UNCHANGED <<last, prev, run>>

\* The sequence is complete; the store is kept to compare with.
StartSecondPass ==
    /\ replay.pos = 0
    /\ replay.log # <<>>
    /\ replay' = [replay EXCEPT !.pos = 1, !.first = transactions]
    /\ UNCHANGED <<transactions, last, prev, run>>

\* The second ingestion of the event at position pos.
SecondPass ==
    /\ replay.pos \in 1..Len(replay.log)
    /\ transactions' = add_input(transactions, replay.log[replay.pos]).store
    /\ replay' = [replay EXCEPT !.pos = @ + 1]
    /\ UNCHANGED <<last, prev, run>>

NextReplay == FirstPass \/ StartSecondPass \/ SecondPass

SpecReplay == Init /\ [][NextReplay]_vars

----------------------------------------------------------------------------
(* One run of process_transactions: the records of the input are read and  *)
(* ingested one by one, then the accounts are written to the output.       *)

\* An item of the input iterator, Result<InputTransaction, csv::Error>.
ParseError == <<>>
Parsed(input_transaction) == <<input_transaction>>

\* The items the iterator can yield: any well-formed record, with or
\* without an amount, or the error of a malformed row.
Records ==
    {Parsed(InputTransaction(type, c, t, a)) :
         type \in TransactionType, c \in Clients, t \in Txs,
         a \in OptionalAmounts}
    \cup {ParseError}

\* The body of the for loop: `result?` then `add_input(..).await?`.
try_item(T, item) ==
    IF item = ParseError
    THEN [store |-> T, result |-> "err"]
    ELSE add_input(T, item[1])

\* Mutant: an error of the item is dropped and the loop goes on.
after_item_ignores_error(result) == "ingest"

\* Where the run is after the body of the loop: `?` returns the error from
\* process_transactions, otherwise the loop takes the next item.
after_item(result) == IF result = "err" THEN "failed" ELSE "ingest"

\* Mutant: the input is still being read while the accounts are written.
ingesting_while_reporting(pc) == pc \in {"ingest", "report"}

\* The for loop is running; get_accounts is called after it.
ingesting(pc) == pc = "ingest"

\* process_transactions up to the loop: the iterator and a fresh store.
InitRun ==
    /\ transactions = {}
    /\ last = [input |-> NoInput, result |-> "ok"]
    /\ prev = {}
    /\ replay = NoReplay
    /\ run = [pc |-> "ingest", log |-> <<>>, output |-> <<>>]

\* The iterator yields an item and the body of the loop runs on it.
ReadItem ==
    /\ ingesting(run.pc)
    /\ Len(run.log) < MaxInput
    /\ \E item \in Records :
           LET out == try_item(transactions, item)
           IN  /\ transactions' = out.store
               /\ run' = [run EXCEPT !.pc = after_item(out.result),
                                     !.log = Append(@, item)]
    /\ UNCHANGED <<last, prev, replay>>

\* The iterator is exhausted: get_accounts and the csv writer are created.
EndOfInput ==
    /\ run.pc = "ingest"
    /\ run' = [run EXCEPT !.pc = "report"]
    /\ UNCHANGED <<transactions, last, prev, replay>>

\* The clients whose account has been written.
emitted == {run.output[i].client : i \in 1..Len(run.output)}

\* One iteration of `while let Some(account)`: the stream of get_accounts
\* takes the next client id, computes its account, and it is serialized.
Emit ==
    /\ run.pc = "report"
    /\ \E client_id \in get_clients(transactions) \ emitted :
           run' = [run EXCEPT !.output =
                       Append(@, get_account_for_client(transactions,
                                                        client_id))]
    /\ UNCHANGED <<transactions, last, prev, replay>>

\* The stream is exhausted: flush and Ok(()).
Finish ==
    /\ run.pc = "report"
    /\ get_clients(transactions) \subseteq emitted
    /\ run' = [run EXCEPT !.pc = "done"]
    /\ UNCHANGED <<transactions, last, prev, replay>>

NextRun == ReadItem \/ EndOfInput \/ Emit \/ Finish

SpecRun == InitRun /\ [][NextRun]_vars

----------------------------------------------------------------------------
(* Vocabulary of the properties *)

Account(T, c) == get_account_for_client(T, c)

\* The balances (available, held, total) of an account.
Balances(a) == <<a.available, a.held, a.total>>

LastType == last.input.transaction_type
LastClient == last.input.client
LastTx == last.input.tx

\* The rows the last event names by (client, tx), in table T.
Named(T) == {r \in T : r.client_id = LastClient /\ r.transaction_id = LastTx}

IsWithdrawal(r) == from_str(r.amount) < 0

\* The account the loop has accumulated when it reaches row r of table T.
AccountBefore(T, r) ==
    while_loop(get_transactions_for_client(
                   {q \in T : q.ordinal < r.ordinal}, r.client_id),
               1, new_account(r.client_id))

\* The loop reaches row r and its candidate available is negative.
Rejected(T, r) ==
    /\ ~r.charged_back
    /\ ~AccountBefore(T, r).locked
    /\ candidate(AccountBefore(T, r), r).available < 0

----------------------------------------------------------------------------
(* C1: for every client, the returned snapshot has                         *)
(* total = available + held.  The three fields are rounded one by one, so  *)
(* this fails: two deposits of 0.00015, one of them disputed, give         *)
(* available 0.0002, held 0.0002 and total 0.0003.                         *)
C1_TotalIsAvailablePlusHeld ==
    \A c \in Clients :
        Account(transactions, c).total
            = Account(transactions, c).available + Account(transactions, c).held

----------------------------------------------------------------------------
(* C2: a Chargeback(c,t) ingested when row (c,t) is not disputed (or is    *)
(* absent) changes no row, so the snapshot of c is the same before and     *)
(* after, and an unlocked account stays unlocked.                          *)
C2_ChargebackNotDisputedIsNoop ==
    (LastType = "chargeback" /\ ~(\E r \in Named(prev) : r.disputed))
        => /\ transactions = prev
           /\ Account(transactions, LastClient) = Account(prev, LastClient)
           /\ (~Account(prev, LastClient).locked
                  => ~Account(transactions, LastClient).locked)

\* A Chargeback has been ingested for an existing row that was never
\* disputed, and the account is not locked.
C2_Witness ==
    /\ LastType = "chargeback"
    /\ \E r \in Named(prev) : ~r.disputed /\ ~r.charged_back
    /\ ~Account(transactions, LastClient).locked
    /\ Account(transactions, LastClient).available > 0

----------------------------------------------------------------------------
(* C3 as stated: for any existing row (c,t), Dispute(c,t) followed by      *)
(* Resolve(c,t) leaves the snapshot of c as it was just before the         *)
(* Dispute.  It fails when the row was already disputed: the Dispute       *)
(* changes nothing and the Resolve releases the held amount.               *)
C3_DisputeThenResolveRestores_AnyRow ==
    [][(/\ LastType = "dispute"
        /\ Named(prev) # {}
        /\ last'.input.transaction_type = "resolve"
        /\ last'.input.client = LastClient
        /\ last'.input.tx = LastTx)
           => Account(transactions', LastClient) = Account(prev, LastClient)]_vars

(* C3, amended: for any existing row (c,t) that is not disputed,           *)
(* Dispute(c,t) followed by Resolve(c,t) leaves every row, and so the      *)
(* snapshot of c, as it was just before the Dispute.                       *)
C3_DisputeThenResolveRestores ==
    [][(/\ LastType = "dispute"
        /\ Named(prev) # {}
        /\ \A r \in Named(prev) : ~r.disputed
        /\ last'.input.transaction_type = "resolve"
        /\ last'.input.client = LastClient
        /\ last'.input.tx = LastTx)
           => /\ transactions' = prev
              /\ Account(transactions', LastClient) = Account(prev, LastClient)]_vars

\* A Resolve has released a disputed deposit: the held amount is back in
\* available.
C3_Witness ==
    /\ LastType = "resolve"
    /\ \E r \in Named(prev) : r.disputed /\ ~r.charged_back /\ ~IsWithdrawal(r)
    /\ \A r \in Named(transactions) : ~r.disputed
    /\ Account(prev, LastClient).held > 0
    /\ Account(transactions, LastClient).held = 0
    /\ Account(transactions, LastClient).available
           = Account(prev, LastClient).held

----------------------------------------------------------------------------
(* C4: a row the loop reaches whose candidate available is negative        *)
(* contributes nothing: the snapshot is the one of the table without that  *)
(* row (the later rows are still folded).  So a Dispute of a withdrawal    *)
(* that was rejected for insufficient funds leaves available, held and     *)
(* total as they were.                                                     *)
C4_RejectedRowContributesNothing ==
    /\ \A r \in transactions :
           Rejected(transactions, r)
               => Account(transactions, r.client_id)
                      = Account(transactions \ {r}, r.client_id)
    /\ (LastType = "dispute"
            /\ \E r \in Named(prev) :
                   IsWithdrawal(r) /\ ~r.disputed /\ Rejected(prev, r))
           => Balances(Account(transactions, LastClient))
                  = Balances(Account(prev, LastClient))

\* A Dispute has been ingested for a withdrawal that exceeds the deposit
\* before it; the account still shows the deposit, nothing held.
C4_Witness ==
    /\ LastType = "dispute"
    /\ \E r \in Named(prev) :
           /\ IsWithdrawal(r) /\ ~r.disputed /\ Rejected(prev, r)
           /\ AccountBefore(prev, r).available > 0
    /\ \E r \in Named(transactions) : r.disputed
    /\ Account(transactions, LastClient).available > 0
    /\ Account(transactions, LastClient).held = 0

----------------------------------------------------------------------------
\* The held amount the loop has accumulated for client c, before rounding.
HeldOf(T, c) ==
    while_loop(get_transactions_for_client(T, c), 1, new_account(c)).held

(* C5 as stated: once a withdrawal that was rejected for insufficient      *)
(* funds is disputed, its value is visible in held.  It fails: the         *)
(* disputed withdrawal is rejected again and held does not move.           *)
C5_DisputedRejectedWithdrawalIsHeld ==
    (LastType = "dispute")
        => \A r \in Named(prev) :
               (IsWithdrawal(r) /\ ~r.disputed /\ Rejected(prev, r))
                   => HeldOf(transactions, LastClient)
                          = HeldOf(prev, LastClient) + Abs(from_str(r.amount))

(* C5, amended: a withdrawal that would drive available negative is        *)
(* rejected in isolation (inserting it leaves the snapshot as it was), and *)
(* it stays rejected once it is disputed: the row is flagged disputed but  *)
(* held, in the loop and in the snapshot, is what it was.                  *)
C5_RejectedWithdrawalStaysOutOfHeld ==
    /\ (LastType = "withdrawal" /\ last.result = "ok")
           => \A r \in Named(transactions) \ prev :
                  Rejected(transactions, r)
                      => Account(transactions, LastClient)
                             = Account(prev, LastClient)
    /\ (LastType = "dispute")
           => \A r \in Named(prev) :
                  (IsWithdrawal(r) /\ ~r.disputed /\ Rejected(prev, r))
                      => /\ \A q \in Named(transactions) :
                                q.disputed /\ Rejected(transactions, q)
                         /\ HeldOf(transactions, LastClient)
                                = HeldOf(prev, LastClient)
                         /\ Account(transactions, LastClient).held
                                = Account(prev, LastClient).held

\* A withdrawal larger than the available funds has been disputed and
\* nothing is held.
C5_Witness ==
    /\ LastType = "dispute"
    /\ \E r \in Named(prev) :
           /\ IsWithdrawal(r) /\ ~r.disputed /\ Rejected(prev, r)
           /\ AccountBefore(prev, r).available > 0
    /\ \E q \in Named(transactions) : q.disputed
    /\ HeldOf(transactions, LastClient) = 0

----------------------------------------------------------------------------
(* C6: in every snapshot, available >= 0 and held >= 0 (event amounts are  *)
(* positive): no sequence of deposits, withdrawals, disputes, resolves and *)
(* chargebacks makes the reconstructed available funds negative.           *)
C6_NoNegativeFunds ==
    \A c \in Clients :
        /\ Account(transactions, c).available >= 0
        /\ Account(transactions, c).held >= 0

\* A client's table holds a withdrawal that the loop rejects, disputed or
\* not, after a deposit that is disputed.
C6_Witness ==
    \E r \in transactions, d \in transactions :
        /\ IsWithdrawal(r) /\ Rejected(transactions, r)
        /\ d.client_id = r.client_id /\ d.ordinal < r.ordinal
        /\ ~IsWithdrawal(d) /\ d.disputed /\ ~d.charged_back
        /\ Account(transactions, r.client_id).held > 0

----------------------------------------------------------------------------
\* The rows of client c that are charged back.
ChargedBack(T, c) == {r \in T : r.client_id = c /\ r.charged_back}

\* The rows of client c inserted before its earliest charged-back row.
BeforeChargeback(T, c) ==
    {r \in T : /\ r.client_id = c
               /\ \A q \in ChargedBack(T, c) : r.ordinal < q.ordinal}

(* C7: when a client has a charged-back row, the snapshot is what the loop *)
(* accumulates over the rows of the client inserted before the earliest    *)
(* charged-back row, with locked = true; that row and the rows inserted    *)
(* after it contribute nothing.  (The balances are the accumulated ones,   *)
(* as the loop returns them.)                                              *)
C7_ChargebackCutsTheFold ==
    \A c \in Clients :
        ChargedBack(transactions, c) # {}
            => Account(transactions, c)
                   = [while_loop(get_transactions_for_client(
                                     BeforeChargeback(transactions, c), c),
                                 1, new_account(c))
                         EXCEPT !.locked = TRUE]

\* A client has a charged-back row and, after it, a deposit that is not
\* charged back, which the snapshot leaves out.
C7_Witness ==
    \E r \in transactions, q \in transactions :
        /\ r.charged_back /\ ~q.charged_back /\ ~IsWithdrawal(q)
        /\ q.client_id = r.client_id /\ r.ordinal < q.ordinal
        /\ Account(transactions, r.client_id).locked
        /\ Account(transactions, r.client_id).total = 0

\* A client has a deposit and, after it, a charged-back row: the snapshot
\* keeps the deposit.
C7_WitnessBefore ==
    \E r \in transactions, q \in transactions :
        /\ r.charged_back /\ ~q.charged_back /\ ~IsWithdrawal(q)
        /\ q.client_id = r.client_id /\ q.ordinal < r.ordinal
        /\ Account(transactions, r.client_id).locked
        /\ Account(transactions, r.client_id).available > 0

----------------------------------------------------------------------------
(* C8: the snapshot of a client is locked if and only if some row of that  *)
(* client is charged back.                                                 *)
C8_LockedIffChargedBack ==
    \A c \in Clients :
        Account(transactions, c).locked <=> ChargedBack(transactions, c) # {}

\* A Chargeback has just flagged a disputed withdrawal that the loop would
\* have rejected, and the account is locked; another client is not.
C8_Witness ==
    /\ LastType = "chargeback"
    /\ \E r \in Named(prev) :
           r.disputed /\ ~r.charged_back /\ IsWithdrawal(r) /\ Rejected(prev, r)
    /\ ~Account(prev, LastClient).locked
    /\ Account(transactions, LastClient).locked
    /\ \E c \in Clients :
           /\ ~Account(transactions, c).locked
           /\ \E r \in transactions : r.client_id = c

----------------------------------------------------------------------------
(* C9: locking is permanent.  Once the snapshot of a client is locked it   *)
(* is locked after every further event, and no event resets a row's        *)
(* charged_back flag: a charged-back row stays in the table, charged back. *)
C9_LockIsPermanent ==
    [][/\ \A c \in Clients :
              Account(transactions, c).locked => Account(transactions', c).locked
       /\ \A r \in transactions :
              r.charged_back
                  => \E q \in transactions' :
                         /\ q.ordinal = r.ordinal
                         /\ q.client_id = r.client_id
                         /\ q.transaction_id = r.transaction_id
                         /\ q.charged_back]_vars

\* A Resolve has been ingested for a row that is charged back and disputed
\* again; the account is still locked.
C9_Witness ==
    /\ LastType = "resolve"
    /\ \E r \in Named(prev) : r.charged_back /\ r.disputed
    /\ \E r \in Named(transactions) : r.charged_back /\ ~r.disputed
    /\ Account(prev, LastClient).locked
    /\ Account(transactions, LastClient).locked

----------------------------------------------------------------------------
(* C10: a Deposit or Withdrawal whose tx id is already in the table, for   *)
(* the same or another client, is ignored: the call succeeds, no row is    *)
(* added and no row changes.  In every state tx ids, and ordinals, are     *)
(* unique in the table.                                                    *)
C10_DuplicateTxIsIgnored ==
    /\ \A r \in transactions, q \in transactions :
           (r.transaction_id = q.transaction_id \/ r.ordinal = q.ordinal)
               => r = q
    /\ (/\ LastType \in {"deposit", "withdrawal"}
        /\ last.input.amount
        /\ \E r \in prev : r.transaction_id = LastTx)
           => /\ last.result = "ok"
              /\ transactions = prev

\* A Withdrawal has been ingested whose tx id is that of a deposit of
\* another client; the table is as it was.
C10_Witness ==
    /\ LastType = "withdrawal"
    /\ last.input.amount
    /\ last.result = "ok"
    /\ \E r \in prev :
           /\ r.transaction_id = LastTx
           /\ r.client_id # LastClient
           /\ ~IsWithdrawal(r)
    /\ transactions = prev

----------------------------------------------------------------------------
FlagTypes == {"dispute", "resolve", "chargeback"}

(* C12: an event carrying client id c changes only rows of client c.  A    *)
(* Dispute, Resolve or Chargeback (c2,t) whose tx id belongs to a row of   *)
(* another client leaves that row as it was, and after any event of        *)
(* client c the snapshot of every other client is what it was.             *)
C12_OtherClientsUntouched ==
    /\ \A r \in prev : r.client_id # LastClient => r \in transactions
    /\ \A r \in transactions : r.client_id # LastClient => r \in prev
    /\ \A c \in Clients \ {LastClient} :
           Account(transactions, c) = Account(prev, c)

\* A Dispute has been ingested that names, under another client id, the tx
\* id of a deposit; the deposit is not disputed and its owner's funds are
\* available.
C12_Witness ==
    /\ LastType = "dispute"
    /\ \E r \in transactions :
           /\ r.transaction_id = LastTx
           /\ r.client_id # LastClient
           /\ ~r.disputed /\ ~r.charged_back /\ ~IsWithdrawal(r)
           /\ Account(transactions, r.client_id).available > 0
           /\ Account(transactions, r.client_id).held = 0

----------------------------------------------------------------------------
(* C13: a Dispute, Resolve or Chargeback whose (client, tx) matches no row *)
(* returns success and leaves the table as it was; a row inserted later,   *)
(* as every new row, starts with disputed and charged_back false.          *)
C13_UnknownReferenceIsIgnored ==
    /\ (LastType \in FlagTypes /\ Named(prev) = {})
           => last.result = "ok" /\ transactions = prev
    /\ \A r \in transactions \ prev :
           (\A q \in prev : q.ordinal # r.ordinal)
               => ~r.disputed /\ ~r.charged_back

\* A Resolve has been ingested that names, under another client id, the tx
\* id of a disputed row; the call succeeded and the row is still disputed.
C13_Witness ==
    /\ LastType = "resolve"
    /\ last.result = "ok"
    /\ Named(prev) = {}
    /\ \E r \in transactions :
           r.transaction_id = LastTx /\ r.client_id # LastClient /\ r.disputed

----------------------------------------------------------------------------
(* C14: a Deposit or Withdrawal without an amount returns an error and     *)
(* inserts nothing: the table is the same before and after the call.       *)
C14_MissingAmountFails ==
    (LastType \in {"deposit", "withdrawal"} /\ ~last.input.amount)
        => last.result = "err" /\ transactions = prev

\* A Withdrawal without an amount has been refused; its tx id is not in
\* the table, which holds another row.
C14_Witness ==
    /\ LastType = "withdrawal"
    /\ ~last.input.amount
    /\ last.result = "err"
    /\ transactions # {}
    /\ \A r \in transactions : r.transaction_id # LastTx

----------------------------------------------------------------------------
(* C15: a Dispute, Resolve or Chargeback that carries an amount fails at   *)
(* ingestion: the call returns an error and the table is as it was.  It    *)
(* fails on the code: add_input never reads the amount of these events.    *)
C15_AmountOnFlagEventFails ==
    (LastType \in FlagTypes /\ last.input.amount)
        => last.result = "err" /\ transactions = prev

----------------------------------------------------------------------------
(* C16: on both ways out of the loop the available, held and total of the  *)
(* snapshot are rounded to RoundDigits decimal places.  It fails on the    *)
(* code: the return on a charged-back row comes before round_amounts.      *)
C16_SnapshotIsRounded ==
    \A c \in Clients :
        /\ round(Account(transactions, c).available, RoundDigits)
               = Account(transactions, c).available
        /\ round(Account(transactions, c).held, RoundDigits)
               = Account(transactions, c).held
        /\ round(Account(transactions, c).total, RoundDigits)
               = Account(transactions, c).total

----------------------------------------------------------------------------
(* C17: get_accounts yields exactly one snapshot for each client id that   *)
(* owns a row and none for any other: a client that appears only in        *)
(* Dispute, Resolve or Chargeback events, or whose Deposits and            *)
(* Withdrawals were all ignored for a colliding tx id, gets no snapshot.   *)
C17_OneSnapshotPerOwner ==
    /\ \A c \in Clients :
           Cardinality({a \in get_accounts(transactions) : a.client = c})
               = IF \E r \in transactions : r.client_id = c THEN 1 ELSE 0
    /\ \A a \in get_accounts(transactions) :
           a = get_account_for_client(transactions, a.client)

\* A Deposit of a client without rows has been ignored because its tx id
\* is taken by a row of a client with a larger id; only that client has a
\* snapshot.
C17_Witness ==
    /\ LastType = "deposit"
    /\ last.input.amount
    /\ last.result = "ok"
    /\ \A r \in transactions : r.client_id # LastClient
    /\ \E r \in transactions :
           r.transaction_id = LastTx /\ r.client_id > LastClient
    /\ Cardinality(get_accounts(transactions)) = 1

----------------------------------------------------------------------------
(* C18: get_transactions_for_client(c) returns exactly the rows of client  *)
(* c, each once, in strictly ascending ordinal order, and a row inserted   *)
(* later has a larger ordinal than every row inserted before it, whatever  *)
(* the clients and tx ids.                                                 *)
C18_RowsInInsertionOrder ==
    /\ \A c \in Clients :
           LET rows == get_transactions_for_client(transactions, c)
           IN  /\ {rows[i] : i \in 1..Len(rows)}
                      = {r \in transactions : r.client_id = c}
               /\ \A i \in 1..Len(rows), j \in 1..Len(rows) :
                      i < j => rows[i].ordinal < rows[j].ordinal
    /\ \A r \in transactions \ prev :
           (\A q \in prev : q.transaction_id # r.transaction_id)
               => \A q \in prev : q.ordinal < r.ordinal

\* A client has just got a second row, whose tx id is smaller than that of
\* its first row; the rows are returned first row first.
C18_Witness ==
    /\ LastType \in {"deposit", "withdrawal"}
    /\ \E r \in transactions \ prev, q \in prev :
           /\ r.client_id = q.client_id
           /\ r.transaction_id < q.transaction_id
           /\ get_transactions_for_client(transactions, r.client_id)
                  = <<q, r>>

----------------------------------------------------------------------------
\* The whole sequence has been ingested a second time.
ReplayDone == replay.pos = Len(replay.log) + 1

IsInsert(e) == e.transaction_type \in {"deposit", "withdrawal"}
IsFlag(e) == e.transaction_type \in FlagTypes

\* No Dispute, Resolve or Chargeback of the sequence comes before the first
\* Deposit or Withdrawal that carries its tx id.
ReferencesFollowInserts(log) ==
    \A i \in 1..Len(log) :
        (IsFlag(log[i])
            /\ \E j \in 1..Len(log) : IsInsert(log[j]) /\ log[j].tx = log[i].tx)
        => \E j \in 1..(i - 1) : IsInsert(log[j]) /\ log[j].tx = log[i].tx

\* No Chargeback is the first of the Dispute, Resolve and Chargeback events
\* that name its (client, tx).
NoLeadingChargeback(log) ==
    \A i \in 1..Len(log) :
        log[i].transaction_type = "chargeback"
            => \E j \in 1..(i - 1) :
                   /\ IsFlag(log[j])
                   /\ log[j].client = log[i].client
                   /\ log[j].tx = log[i].tx

(* C11 as stated: after any sequence S has been ingested into a fresh      *)
(* store, ingesting S again leaves every client's snapshot as it was after *)
(* the first ingestion.  It fails: in <<Dispute(1,1), Deposit(1,1,a)>> the *)
(* Dispute finds no row the first time and flags the row the second time.  *)
C11_ReplayIsIdempotent_AnySequence ==
    ReplayDone
        => \A c \in Clients :
               Account(transactions, c) = Account(replay.first, c)

(* C11, amended: for any sequence S in which no Dispute, Resolve or        *)
(* Chargeback comes before the first Deposit or Withdrawal carrying its tx *)
(* id, and in which no Chargeback is the first of the Dispute, Resolve and *)
(* Chargeback events naming its (client, tx), ingesting S a second time    *)
(* leaves every client's snapshot as it was after the first ingestion.     *)
C11_ReplayIsIdempotent ==
    (/\ ReplayDone
     /\ ReferencesFollowInserts(replay.log)
     /\ NoLeadingChargeback(replay.log))
        => \A c \in Clients :
               Account(transactions, c) = Account(replay.first, c)

\* Deposit, Dispute and Chargeback of one tx have been ingested twice; the
\* account was locked after the first time and is the same now.
C11_Witness ==
    /\ ReplayDone
    /\ Len(replay.log) = 3
    /\ replay.log[1].transaction_type = "deposit"
    /\ replay.log[2].transaction_type = "dispute"
    /\ replay.log[3].transaction_type = "chargeback"
    /\ \A i \in 2..3 : /\ replay.log[i].client = replay.log[1].client
                       /\ replay.log[i].tx = replay.log[1].tx
    /\ Account(replay.first, replay.log[1].client).locked
    /\ Account(transactions, replay.log[1].client)
           = Account(replay.first, replay.log[1].client)

----------------------------------------------------------------------------
\* The store after the items of log have gone through the loop body, one
\* at a time, first to last.
RECURSIVE ApplyAll(_)
ApplyAll(log) ==
    IF log = <<>>
    THEN {}
    ELSE try_item(ApplyAll(SubSeq(log, 1, Len(log) - 1)),
                  log[Len(log)]).store

\* The item at position i of the input fails: a malformed row, or an error
\* of add_input on the store the items before it have built.
Fails(log, i) ==
    try_item(ApplyAll(SubSeq(log, 1, i - 1)), log[i]).result = "err"

(* C19: if an item of the input fails (a malformed row or an add_input     *)
(* error), process_transactions stops at that item: it is the last item    *)
(* taken from the input, the store is as the items before it left it, the  *)
(* run has ended with the error, and no account has been written.          *)
C19_AbortOnFirstFailure ==
    \A i \in 1..Len(run.log) :
        Fails(run.log, i)
            => /\ i = Len(run.log)
               /\ run.pc = "failed"
               /\ run.output = <<>>
               /\ transactions = ApplyAll(SubSeq(run.log, 1, i - 1))

\* A run that ingested a deposit and then met a withdrawal without amount:
\* it failed with the deposit's row in the store and nothing written.
C19_Witness ==
    /\ run.pc = "failed"
    /\ Len(run.log) = 2
    /\ run.log[1] # ParseError
    /\ run.log[1][1].transaction_type = "deposit"
    /\ run.log[2] # ParseError
    /\ run.log[2][1].transaction_type = "withdrawal"
    /\ run.log[2][1].amount = NoAmount
    /\ Cardinality(transactions) = 1
    /\ run.output = <<>>

(* C20: in every run the store is the result of applying the items read so *)
(* far one at a time in arrival order; once an account has been written no *)
(* further item is ingested and the store does not change; and every       *)
(* account written is the account of its client in that same store, which  *)
(* holds the whole input.                                                  *)
C20_ReconstructionAfterIngestion ==
    [][/\ transactions' = ApplyAll(run'.log)
       /\ run'.output # <<>>
              => /\ run'.pc \in {"report", "done"}
                 /\ run'.log = run.log
                 /\ transactions' = transactions
                 /\ \A i \in 1..Len(run'.output) :
                        run'.output[i]
                            = Account(transactions', run'.output[i].client)]_vars

\* A finished run over two deposits of two clients, one account written for
\* each from the store that holds both rows.
C20_Witness ==
    /\ run.pc = "done"
    /\ Len(run.log) = 2
    /\ Cardinality(transactions) = 2
    /\ Len(run.output) = 2
    /\ run.output[1].client # run.output[2].client
    /\ \A i \in 1..2 : run.output[i].available > 0

----------------------------------------------------------------------------
(* C22: a Chargeback(c,t) ingested when row (c,t) is disputed sets that    *)
(* row to disputed = false and charged_back = true and changes nothing     *)
(* else: the row keeps its ordinal, client id, tx id and amount, and every *)
(* other row of the table is as it was.                                    *)
C22_ChargebackChangesOneRow ==
    LastType = "chargeback"
        => \A r \in Named(prev) :
               r.disputed
                   => /\ transactions
                             = (prev \ {r})
                                   \cup {[r EXCEPT !.disputed = FALSE,
                                                   !.charged_back = TRUE]}
                      /\ \E q \in Named(transactions) :
                             /\ q.ordinal = r.ordinal
                             /\ q.amount = r.amount
                             /\ ~q.disputed
                             /\ q.charged_back
                      /\ prev \ {r} \subseteq transactions

\* A Chargeback has been ingested for a disputed row while another row was
\* disputed too: the first is charged back, the second is still disputed.
C22_Witness ==
    /\ LastType = "chargeback"
    /\ \E r \in Named(prev) : r.disputed /\ ~r.charged_back
    /\ \E q \in Named(transactions) : q.charged_back /\ ~q.disputed
    /\ \E q \in transactions \ Named(transactions) :
           q.disputed /\ ~q.charged_back

----------------------------------------------------------------------------
(* C23: a Chargeback of a disputed withdrawal locks the account even when  *)
(* the loop had discarded that withdrawal under the negative-funds guard:  *)
(* the charged_back test comes first, so the snapshot is locked and its    *)
(* available, held and total are the ones the loop had accumulated from    *)
(* the rows before the withdrawal.                                         *)
C23_ChargebackOfRejectedWithdrawalLocks ==
    LastType = "chargeback"
        => \A r \in Named(prev) :
               (/\ r.disputed /\ ~r.charged_back
                /\ IsWithdrawal(r)
                /\ Rejected(prev, r))
                   => /\ Account(transactions, LastClient).locked
                      /\ Balances(Account(transactions, LastClient))
                             = Balances(AccountBefore(prev, r))

\* A deposit, then a larger withdrawal, disputed and now charged back: the
\* account is locked and shows the deposit alone.
C23_Witness ==
    /\ LastType = "chargeback"
    /\ \E r \in Named(prev) :
           /\ r.disputed /\ ~r.charged_back /\ IsWithdrawal(r)
           /\ Rejected(prev, r)
           /\ AccountBefore(prev, r).available > 0
           /\ Abs(from_str(r.amount)) > AccountBefore(prev, r).available
           /\ Account(transactions, LastClient).available
                  = AccountBefore(prev, r).available
    /\ Account(transactions, LastClient).held = 0
    /\ Account(transactions, LastClient).locked

----------------------------------------------------------------------------
\* The account the loop has accumulated when it has gone through row r of
\* table T.
AccountAfter(T, r) ==
    while_loop(get_transactions_for_client(
                   {q \in T : q.ordinal <= r.ordinal}, r.client_id),
               1, new_account(r.client_id))

\* The loop reaches row r, which is disputed, and commits its candidate.
CommitsDisputed(T, r) ==
    /\ r.disputed /\ ~r.charged_back
    /\ ~AccountBefore(T, r).locked
    /\ ~Rejected(T, r)

(* C25: when the loop commits a disputed row of absolute amount x, held    *)
(* rises by exactly x.  If the row is a withdrawal, available before it    *)
(* was at least x and available falls by x, so total is what it was before *)
(* the row; if the row is a deposit, available is left as it was (and      *)
(* total rises by x).                                                      *)
C25_DisputedRowMovesAmountToHeld ==
    \A r \in transactions :
        CommitsDisputed(transactions, r)
            => LET before == AccountBefore(transactions, r)
                   after == AccountAfter(transactions, r)
                   x == Abs(from_str(r.amount))
               IN  /\ after.held = before.held + x
                   /\ IsWithdrawal(r)
                          => /\ before.available >= x
                             /\ after.available = before.available - x
                             /\ after.total = before.total
                   /\ ~IsWithdrawal(r)
                          => /\ after.available = before.available
                             /\ after.total = before.total + x

\* A deposit and then a smaller withdrawal, which is disputed: the loop
\* commits it, with its amount held and taken from available.
C25_Witness ==
    \E r \in transactions :
        /\ CommitsDisputed(transactions, r)
        /\ IsWithdrawal(r)
        /\ AccountBefore(transactions, r).available
               > Abs(from_str(r.amount))
        /\ AccountAfter(transactions, r).held = Abs(from_str(r.amount))
        /\ AccountAfter(transactions, r).available > 0
        /\ AccountAfter(transactions, r).total
               = AccountBefore(transactions, r).total

----------------------------------------------------------------------------
\* The table after add_input has been called for each event of log in
\* turn, starting from table T.
RECURSIVE add_inputs(_, _)
add_inputs(T, log) ==
    IF log = <<>> THEN T
    ELSE add_inputs(add_input(T, Head(log)).store, Tail(log))

\* The events ingested so far: the sequence, and in the second pass the
\* part of it that has been ingested again.
History ==
    IF replay.pos = 0 THEN replay.log
    ELSE replay.log \o SubSeq(replay.log, 1, replay.pos - 1)

\* Event i of H is the Deposit or Withdrawal that created row (c, t): the
\* first of H that carries tx t, and it is of client c.
Creates(H, i, c, t) ==
    /\ IsInsert(H[i]) /\ H[i].client = c /\ H[i].tx = t
    /\ \A m \in 1..(i - 1) : ~(IsInsert(H[m]) /\ H[m].tx = t)

\* Event i of H is an event of the given type naming (c, t).
Is(H, i, type, c, t) ==
    /\ H[i].transaction_type = type /\ H[i].client = c /\ H[i].tx = t

\* H holds the creation of row (c, t), later a Dispute(c, t), and later a
\* Chargeback(c, t) with no Resolve(c, t) between the last Dispute(c, t)
\* before it and itself.
ChargebackOfDisputed(H, c) ==
    \E t \in Txs, k \in 1..Len(H) :
        /\ Is(H, k, "chargeback", c, t)
        /\ \E j \in 1..(k - 1) :
               /\ Is(H, j, "dispute", c, t)
               /\ \A m \in (j + 1)..(k - 1) :
                      ~Is(H, m, "dispute", c, t) /\ ~Is(H, m, "resolve", c, t)
               /\ \E i \in 1..(j - 1) : Creates(H, i, c, t)

(* C21: the snapshot of a client c is locked if and only if the events     *)
(* ingested so far hold, for some tx t, the Deposit or Withdrawal that     *)
(* created row (c,t), later a Dispute(c,t), and later a Chargeback(c,t)    *)
(* with no Resolve(c,t) between the last such Dispute and that Chargeback. *)
(* It is stated after each event of a sequence ingested into a fresh store *)
(* and again when the whole sequence has been ingested a second time.      *)
C21_LockedIffChargebackOfDisputed ==
    (replay.pos = 0 \/ ReplayDone)
        => /\ transactions = add_inputs({}, History)
           /\ \A c \in Clients :
                  Account(transactions, c).locked
                      <=> ChargebackOfDisputed(History, c)

\* Deposit, Resolve, Dispute and Chargeback of one row have been ingested:
\* the Resolve came before the Dispute and the account is locked.
C21_Witness ==
    /\ replay.pos = 0
    /\ Len(replay.log) = 4
    /\ \E c \in Clients, t \in Txs :
           /\ Creates(replay.log, 1, c, t)
           /\ Is(replay.log, 2, "resolve", c, t)
           /\ Is(replay.log, 3, "dispute", c, t)
           /\ Is(replay.log, 4, "chargeback", c, t)
           /\ Account(transactions, c).locked

----------------------------------------------------------------------------
\* Sequence log with its event i moved to the end.
MovedToEnd(log, i) ==
    SubSeq(log, 1, i - 1) \o SubSeq(log, i + 1, Len(log)) \o <<log[i]>>

\* Event i of log is a Dispute of a row that exists when it is ingested,
\* and every event after it is a Deposit or Withdrawal.
DisputeThenInserts(log, i) ==
    /\ log[i].transaction_type = "dispute"
    /\ \E r \in add_inputs({}, SubSeq(log, 1, i - 1)) :
           r.client_id = log[i].client /\ r.transaction_id = log[i].tx
    /\ \A m \in (i + 1)..Len(log) : IsInsert(log[m])

(* C24: the snapshot depends on the insertion order of the rows and on     *)
(* their current flags, not on when a Dispute arrived.  For a sequence in  *)
(* which a Dispute of an existing row is followed by Deposits and          *)
(* Withdrawals only, ingesting the Dispute after those insertions instead  *)
(* gives the same table, and so the same snapshot for every client.        *)
C24_DisputeArrivalDoesNotMatter ==
    replay.pos = 0
        => \A i \in 1..Len(replay.log) :
               DisputeThenInserts(replay.log, i)
                   => /\ add_inputs({}, MovedToEnd(replay.log, i))
                             = transactions
                      /\ \A c \in Clients :
                             Account(add_inputs({}, MovedToEnd(replay.log, i)),
                                     c)
                                 = Account(transactions, c)

\* A deposit, its Dispute, then a withdrawal the deposit would have paid
\* for: the withdrawal is discarded, as it is when the Dispute comes last,
\* although without the Dispute the loop commits it.
C24_Witness ==
    /\ replay.pos = 0
    /\ Len(replay.log) = 3
    /\ DisputeThenInserts(replay.log, 2)
    /\ replay.log[1].transaction_type = "deposit"
    /\ replay.log[3].transaction_type = "withdrawal"
    /\ \E w \in transactions :
           /\ IsWithdrawal(w)
           /\ Rejected(transactions, w)
           /\ Rejected(add_inputs({}, MovedToEnd(replay.log, 2)), w)
           /\ ~Rejected(add_inputs({}, <<replay.log[1], replay.log[3]>>), w)
    /\ Account(transactions, replay.log[1].client).held > 0

=============================================================================
